---- MODULE Spec2Model ----
(***************************************************************************)
(* A model of Optimizer.py: the Optimizer job orchestrator (attachData,    *)
(* setOPLModel, setResultDataModel, solve) and the ModelSource composer.   *)
(* The remote solve service (docloud JobClient), the OPLCollector and the  *)
(* byte streams are the environment: the service chooses each job's        *)
(* execution status and any of its calls may raise.                        *)
(*                                                                         *)
(* solve() is modelled step by step (pc), one step per block of its body;  *)
(* an exception raised inside solve() ends the call where it is raised,    *)
(* since the body holds no try/finally.  No other method runs while a      *)
(* solve() is in flight (single-threaded, synchronous).                    *)
(***************************************************************************)
EXTENDS Integers, Sequences, FiniteSets, TLC

VARIABLES
    name,             \* self.name
    credentials,      \* self.credentials
    model,            \* self.model: None or Some(ModelSource)
    resultDataModel,  \* self.resultDataModel: None or Some(schema)
    attachments,      \* self.attachments: dict stem -> reference
    streamsRegistry,  \* self.streamsRegistry: list of streams
    history,          \* self.history: list of result collectors
    solveStatus,      \* self.solveStatus
    jobid,            \* self.jobid (0: attribute not yet set)
    pc,               \* position inside solve(); "idle" between calls
    nCalls,           \* number of solve() calls that got past the model check
    inputs,           \* solve() local: inputs
    response,         \* solve() local: response
    status,           \* solve() local: status
    solution,         \* solve() local: solution (None: unbound)
    solutionId,       \* solve() parameter
    openStreams,      \* environment: the registered streams currently open
    jobs,             \* environment: job records created by the service
    deleted,          \* environment: delete_job requests received, in order
    lastOp            \* the last finished call and how it ended

vars == <<name, credentials, model, resultDataModel, attachments, streamsRegistry, history,
          solveStatus, jobid, pc, nCalls, inputs, response, status, solution,
          solutionId, openStreams, jobs, deleted, lastOp>>

config == <<name, credentials, model, resultDataModel, attachments>>
locals == <<inputs, response, status, solution, solutionId>>
remote == <<jobs, deleted>>

---------------------------------------------------------------------------
(* Bounds of the model *)

\* solve() calls per behaviour
MaxSolves == 2
\* length of a reference list handed to attachData
MaxRefs == 2
\* length of a fragment list handed to ModelSource
MaxFrags == 3

---------------------------------------------------------------------------
(* Python values *)

None == <<>>
Some(x) == <<x>>
Get(o) == o[1]

\* Python truthiness of an optional list: None and [] are false
Truthy(o) == o # None /\ Get(o) # <<>>

Range(s) == {s[i] : i \in 1..Len(s)}

SeqsUpTo(S, n) == UNION {[1..k -> S] : k \in 0..n}

ProblemNames == {"Diet"}
Schemas == {"S1", "S2"}
Stems == {"x", "y"}

\* attachment references: a location, a file stem and an extension
Refs == { [dir |-> "a", stem |-> "x", ext |-> "dat"],
          [dir |-> "b", stem |-> "x", ext |-> "json"],
          [dir |-> "a", stem |-> "y", ext |-> "dat"] }

RefLists == SeqsUpTo(Refs, MaxRefs)

ModelNames == {"OPL.mod"}
\* the fragment lists handed to setOPLModel: absent, empty, or two fragments
OptDotMods == {None, Some(<<>>)}
OptModelText == {None, Some(<<>>), Some(<<"t1", "t2">>)}

\* the variable input of a solve: None or an OPLCollector with a name
InputDatas == {None, Some([name |-> "Cols"])}
SolutionIds == {""}
\* the solution identifiers of an iterative algorithm
SolutionTags == {"", "_1"}

ExecutionStatuses == {"PROCESSED", "FAILED", "INTERRUPTED"}
ReportedStatuses == {"OPTIMAL_SOLUTION", "INFEASIBLE_SOLUTION"}

\* model fragments: literal texts, and references with the content found there
FragmentTexts == {"p;", "q;"}
FragmentRefs == {"u/data.mod", "v/opt.mod"}
Fetch(f) == IF f = "u/data.mod" THEN "tuple T{};" ELSE "minimize z;"

\* the fragment lists handed to ModelSource directly
OptFragmentRefs == {None} \cup {Some(l) : l \in SeqsUpTo(FragmentRefs, MaxFrags)}
OptFragmentTexts == {None} \cup {Some(l) : l \in SeqsUpTo(FragmentTexts, MaxFrags)}

NoResponse == [jobid |-> 0, solution |-> [job |-> 0], solveStatus |-> "UNKNOWN"]

---------------------------------------------------------------------------
(* How a call ended *)

Returned(op, st, v) ==
    [op |-> op, result |-> "returned", error |-> "", status |-> st, value |-> v]

Raised(op, st, err) ==
    [op |-> op, result |-> "raised", error |-> err, status |-> st, value |-> None]

---------------------------------------------------------------------------
(* ModelSource *)

\* a bug that checks the first list only
ModelSourceRaisesDotModsOnly(dotMods, modelText) ==
    dotMods # None /\ Get(dotMods) = <<>>

\* ModelSource.__init__: the checks that raise, and the object built
ModelSourceRaises(dotMods, modelText) ==
    \/ (dotMods # None /\ Get(dotMods) = <<>>)
    \/ (modelText # None /\ Get(modelText) = <<>>)

ModelSourceInit(n, dotMods, modelText) ==
    [name |-> n, dotMods |-> dotMods, modelText |-> modelText]

\* the argument pairs of a ModelSource: at most one fragment list is supplied
ModelArgs == {a \in OptDotMods \X OptModelText : a[1] = None \/ a[2] = None}

ModelSources ==
    { ModelSourceInit(n, a[1], a[2]) :
        n \in ModelNames, a \in {b \in ModelArgs : ~ModelSourceRaises(b[1], b[2])} }

isEmpty(ms) == ms.dotMods = None /\ ms.modelText = None

\* a bug that joins the fragments last to first
RECURSIVE JoinReversed(_)
JoinReversed(frags) ==
    IF frags = <<>> THEN "" ELSE JoinReversed(Tail(frags)) \o Head(frags)

\* "".join(frags), and the bytes read from a chain of streams
RECURSIVE Join(_)
Join(frags) ==
    IF frags = <<>> THEN "" ELSE Head(frags) \o Join(Tail(frags))

\* (urllib.FancyURLopener(f) for f in self.dotMods): one stream per reference,
\* in list order, each yielding what is found at its reference
Openers(refs) == [i \in 1..Len(refs) |-> Fetch(refs[i])]

\* ModelSource.toStream: which branch produces the stream and what the stream
\* yields, or the error
toStream(ms) ==
    IF Truthy(ms.dotMods)
    THEN [raised |-> FALSE, branch |-> "dotMods",
          content |-> Join(Openers(Get(ms.dotMods)))]
    ELSE IF Truthy(ms.modelText)
    THEN [raised |-> FALSE, branch |-> "modelText",
          content |-> Join(Get(ms.modelText))]
    ELSE [raised |-> TRUE, branch |-> "none", content |-> ""]

\* ModelSource(name, dotMods, modelText) called on its own
newModelSource(n, dotMods, modelText) ==
    /\ pc = "idle"
    /\ IF ModelSourceRaises(dotMods, modelText)
       THEN /\ lastOp' = Raised("ModelSource", "NONE", "argument cannot be empty")
            /\ UNCHANGED model
       ELSE /\ model' = Some(ModelSourceInit(n, dotMods, modelText))
            /\ lastOp' = Returned("ModelSource", "NONE", None)
    /\ UNCHANGED <<name, credentials, resultDataModel, attachments, streamsRegistry,
                   history, solveStatus, jobid, pc, nCalls, inputs, response, status,
                   solution, solutionId, openStreams, jobs, deleted>>

\* isEmpty() called on the ModelSource built last
callIsEmpty ==
    /\ pc = "idle"
    /\ model # None
    /\ lastOp' = Returned("isEmpty", "NONE", isEmpty(Get(model)))
    /\ UNCHANGED <<name, credentials, model, resultDataModel, attachments,
                   streamsRegistry, history, solveStatus, jobid, pc, nCalls, inputs,
                   response, status, solution, solutionId, openStreams, jobs, deleted>>

\* toStream() called on the ModelSource built last
callToStream ==
    /\ pc = "idle"
    /\ model # None
    /\ LET ts == toStream(Get(model)) IN
       lastOp' = IF ts.raised
                 THEN Raised("toStream", "NONE", "model source is empty")
                 ELSE Returned("toStream", "NONE", ts.content)
    /\ UNCHANGED <<name, credentials, model, resultDataModel, attachments,
                   streamsRegistry, history, solveStatus, jobid, pc, nCalls, inputs,
                   response, status, solution, solutionId, openStreams, jobs, deleted>>

---------------------------------------------------------------------------
(* Optimizer.attachData *)

\* the stem of a reference: path and extension stripped
fileName(f) == f.stem

Put(m, k, v) == [s \in DOMAIN m \cup {k} |-> IF s = k THEN v ELSE m[s]]

\* the loop over the references: stops at the first repeated stem
RECURSIVE AttachLoop(_, _)
AttachLoop(m, refs) ==
    IF refs = <<>> THEN [map |-> m, raised |-> FALSE, error |-> ""]
    ELSE IF fileName(Head(refs)) \in DOMAIN m
         THEN [map |-> m, raised |-> TRUE, error |-> "already attached"]
         ELSE AttachLoop(Put(m, fileName(Head(refs)), Head(refs)), Tail(refs))

\* a bug that merges into the old map instead of starting from {}
AttachResultMerging(old, arg) ==
    IF arg # None THEN AttachLoop(old, Get(arg))
    ELSE [map |-> old, raised |-> FALSE, error |-> ""]

\* the map attachData leaves in self.attachments and whether it raised
AttachResult(old, arg) ==
    IF arg # None THEN AttachLoop(<<>>, Get(arg))
    ELSE [map |-> <<>>, raised |-> FALSE, error |-> ""]

attachData(arg) ==
    /\ pc = "idle"
    /\ LET r == AttachResult(attachments, arg) IN
       /\ attachments' = r.map
       /\ lastOp' = IF r.raised
                    THEN Raised("attachData", "NONE", r.error)
                    ELSE Returned("attachData", "NONE", None)
    /\ UNCHANGED <<name, credentials, model, resultDataModel, streamsRegistry, history,
                   solveStatus, jobid, pc, nCalls, locals, openStreams, remote>>

---------------------------------------------------------------------------
(* Optimizer.setOPLModel, Optimizer.setResultDataModel *)

\* a bug that drops the set-once check
NeverSet(m) == FALSE

\* the set-once check of setOPLModel and setResultDataModel
AlreadySet(m) == m # None

setOPLModel(n, dotMods, modelText) ==
    /\ pc = "idle"
    /\ IF AlreadySet(model)
       THEN /\ lastOp' = Raised("setOPLModel", "NONE", "model has already been set")
            /\ UNCHANGED model
       ELSE IF ModelSourceRaises(dotMods, modelText)
       THEN /\ lastOp' = Raised("setOPLModel", "NONE", "argument cannot be empty")
            /\ UNCHANGED model
       ELSE /\ model' = Some(ModelSourceInit(n, dotMods, modelText))
            /\ lastOp' = Returned("setOPLModel", "NONE", None)
    /\ UNCHANGED <<name, credentials, resultDataModel, attachments, streamsRegistry, history,
                   solveStatus, jobid, pc, nCalls, locals, openStreams, remote>>

setResultDataModel(schema) ==
    /\ pc = "idle"
    /\ IF AlreadySet(resultDataModel)
       THEN /\ lastOp' = Raised("setResultDataModel", "NONE",
                                "results data model has already been defined")
            /\ UNCHANGED resultDataModel
       ELSE /\ resultDataModel' = Some(schema)
            /\ lastOp' = Returned("setResultDataModel", "NONE", None)
    /\ UNCHANGED <<name, credentials, model, attachments, streamsRegistry, history,
                   solveStatus, jobid, pc, nCalls, locals, openStreams, remote>>

getSolveStatus == solveStatus

---------------------------------------------------------------------------
(* Optimizer.solve *)

\* iteration order of a Python 2 dict over these keys: by hash slot, not by
\* insertion order
HashSlot(s) == IF s = "y" THEN 0 ELSE 1

RECURSIVE KeysFrom(_, _)
KeysFrom(D, slot) ==
    IF D = {} THEN <<>>
    ELSE LET here == {s \in D : HashSlot(s) = slot}
         IN  (IF here = {} THEN <<>> ELSE <<CHOOSE s \in here : TRUE>>)
             \o KeysFrom(D \ here, slot + 1)

DictKeys(m) == KeysFrom(DOMAIN m, 0)

Stream(call, kind, n) == [call |-> call, kind |-> kind, name |-> n]
Input(n, stream) == [name |-> n, file |-> stream]

\* a bug that forgets the extension
jsonNameBare(inputData) == <<Get(inputData).name>>

\* inputData.getName() + ".json"
jsonName(inputData) == <<Get(inputData).name, ".json">>

\* a bug that drops the model check at the head of solve()
NoModelNever(m) == FALSE

\* the check at the head of solve(): self.model is None
NoModel(m) == m = None

\* "if self.model:" -- a ModelSource defines neither __nonzero__ nor __len__,
\* so every ModelSource object is true, the empty one included
ModelTruthy(m) == m # None

\* the streams opened for the constant attachments, in dict order
AttachmentStreams(call, m) ==
    [i \in 1..Len(DictKeys(m)) |-> Stream(call, "attachment", DictKeys(m)[i])]

\* a bug that walks the attachments backwards when building the inputs
AttachmentInputsReversed(call, m) ==
    [i \in 1..Len(DictKeys(m)) |->
        Input(<<DictKeys(m)[Len(DictKeys(m)) + 1 - i]>>,
              AttachmentStreams(call, m)[Len(DictKeys(m)) + 1 - i])]

AttachmentInputs(call, m) ==
    [i \in 1..Len(DictKeys(m)) |-> Input(<<DictKeys(m)[i]>>, AttachmentStreams(call, m)[i])]

ResetLocals ==
    /\ inputs' = <<>>
    /\ response' = NoResponse
    /\ status' = "NONE"
    /\ solution' = None
    /\ solutionId' = ""

\* an exception leaves solve(): nothing after the raising statement runs
SolveRaises(err) ==
    /\ pc' = "idle"
    /\ lastOp' = Raised("solve", status, err)
    /\ ResetLocals

\* solve() with no model attached
solveNoModel ==
    /\ pc = "idle"
    /\ NoModel(model)
    /\ lastOp' = Raised("solve", "NONE",
                        "A model attachment must be provided to the optimizer")
    /\ UNCHANGED <<config, streamsRegistry, history, solveStatus, jobid, pc,
                   nCalls, locals, openStreams, remote>>

\* solve(): the inputs are assembled; toStream() or toJSON() may raise
solveAssemble(inputData, sid, jsonFails) ==
    /\ pc = "idle"
    /\ ~NoModel(model)
    /\ nCalls < MaxSolves
    /\ nCalls' = nCalls + 1
    /\ LET call == nCalls + 1
           hasModel == ModelTruthy(model)
           ts == IF hasModel THEN toStream(Get(model))
                 ELSE [raised |-> FALSE, branch |-> "none", content |-> ""]
           mStream == Stream(call, "model", IF hasModel THEN Get(model).name ELSE "")
           mStreams == IF hasModel THEN <<mStream>> ELSE <<>>
           mInputs == IF hasModel THEN <<Input(<<Get(model).name>>, mStream)>> ELSE <<>>
           aStreams == AttachmentStreams(call, attachments)
           aInputs == AttachmentInputs(call, attachments)
           outStream == Stream(call, "outStream", "json")
           inStream == Stream(call, "inStream", "json")
       IN
       IF ts.raised
       THEN /\ SolveRaises("model source is empty")
            /\ UNCHANGED <<streamsRegistry, openStreams>>
       ELSE IF inputData = None
       THEN /\ ~jsonFails
            /\ streamsRegistry' = streamsRegistry \o mStreams \o aStreams
            /\ openStreams' = openStreams \cup Range(mStreams \o aStreams)
            /\ inputs' = mInputs \o aInputs
            /\ pc' = "assembled"
            /\ solutionId' = sid
            /\ UNCHANGED <<response, status, solution, lastOp>>
       ELSE IF jsonFails
       THEN \* outStream is not yet registered: it is dropped with the frame
            /\ streamsRegistry' = streamsRegistry \o mStreams \o aStreams
            /\ openStreams' = openStreams \cup Range(mStreams \o aStreams)
            /\ SolveRaises("toJSON failed")
       ELSE /\ streamsRegistry' = streamsRegistry \o mStreams \o aStreams
                                  \o <<outStream, inStream>>
            /\ openStreams' = openStreams \cup Range(mStreams \o aStreams)
                              \cup {outStream, inStream}
            /\ inputs' = mInputs \o aInputs
                         \o <<Input(jsonName(inputData), inStream)>>
            /\ pc' = "assembled"
            /\ solutionId' = sid
            /\ UNCHANGED <<response, status, solution, lastOp>>
    /\ UNCHANGED <<config, history, solveStatus, jobid, remote>>

\* jobclient.execute(...) and self.jobid = response.jobid
solveExecute(fails, rs) ==
    /\ pc = "assembled"
    /\ IF fails
       THEN /\ rs = "OPTIMAL_SOLUTION"
            /\ SolveRaises("execute failed")
            /\ UNCHANGED <<jobs, jobid>>
       ELSE /\ jobs' = Append(jobs, Len(jobs) + 1)
            /\ response' = [jobid |-> Len(jobs) + 1,
                            solution |-> [job |-> Len(jobs) + 1],
                            solveStatus |-> rs]
            /\ jobid' = Len(jobs) + 1
            /\ pc' = "submitted"
            /\ UNCHANGED <<inputs, status, solution, solutionId, lastOp>>
    /\ UNCHANGED <<config, streamsRegistry, history, solveStatus, nCalls,
                   openStreams, deleted>>

\* status = jobclient.get_execution_status(self.jobid)
solveGetStatus(fails, st) ==
    /\ pc = "submitted"
    /\ IF fails
       THEN /\ st = "FAILED"
            /\ SolveRaises("get_execution_status failed")
       ELSE /\ status' = st
            /\ pc' = "classified"
            /\ UNCHANGED <<inputs, response, solution, solutionId, lastOp>>
    /\ UNCHANGED <<config, streamsRegistry, history, solveStatus, jobid, nCalls,
                   openStreams, remote>>

\* a bug that leaves the solution identifier out of the result's name
fromJSONUntagged(n, sid, schema, bytes) ==
    [name |-> <<n, "Result", "">>, schema |-> schema, data |-> bytes.job]

\* OPLCollector(name + "Result" + solutionId, resultDataModel)
\*     .setJsonSource(results).fromJSON()
fromJSON(n, sid, schema, bytes) ==
    [name |-> <<n, "Result", sid>>, schema |-> schema, data |-> bytes.job]

\* a bug that forgets the append
HistoryKept(h, s) == h

\* self.history.append(solution)
HistoryAppend(h, s) == Append(h, s)

\* the branch status == PROCESSED; fromJSON() may raise on the solution bytes
solveProcessed(fails) ==
    /\ pc = "classified"
    /\ status = "PROCESSED"
    /\ LET results == Stream(nCalls, "results", "results") IN
       /\ streamsRegistry' = Append(streamsRegistry, results)
       /\ openStreams' = openStreams \cup {results}
    /\ solveStatus' = response.solveStatus
    /\ IF ~fails
       THEN LET s == fromJSON(name, solutionId, resultDataModel, response.solution) IN
            /\ solution' = Some(s)
            /\ history' = HistoryAppend(history, s)
            /\ pc' = "mapped"
            /\ UNCHANGED <<inputs, response, status, solutionId, lastOp>>
       ELSE /\ SolveRaises("fromJSON failed")
            /\ UNCHANGED history
    /\ UNCHANGED <<config, jobid, nCalls, remote>>

\* the branch status == FAILED: the failure message is printed
solveFailed ==
    /\ pc = "classified"
    /\ status = "FAILED"
    /\ pc' = "mapped"
    /\ UNCHANGED <<config, streamsRegistry, history, solveStatus, jobid, nCalls,
                   locals, openStreams, remote, lastOp>>

\* the else branch: the status is printed
solveOther ==
    /\ pc = "classified"
    /\ status \notin {"PROCESSED", "FAILED"}
    /\ pc' = "mapped"
    /\ UNCHANGED <<config, streamsRegistry, history, solveStatus, jobid, nCalls,
                   locals, openStreams, remote, lastOp>>

\* a bug that skips the close loop
CloseNone(open, registry) == open

\* for s in self.streamsRegistry: s.close()
CloseAll(open, registry) == open \ Range(registry)

\* a bug that drops the constant attachments during cleanup
solveCloseDetaching ==
    /\ pc = "mapped"
    /\ openStreams' = CloseAll(openStreams, streamsRegistry)
    /\ pc' = "closed"
    /\ attachments' = <<>>
    /\ UNCHANGED <<name, credentials, model, resultDataModel, streamsRegistry, history,
                   solveStatus, jobid, nCalls, locals, remote, lastOp>>

solveClose ==
    /\ pc = "mapped"
    /\ openStreams' = CloseAll(openStreams, streamsRegistry)
    /\ pc' = "closed"
    /\ UNCHANGED <<config, streamsRegistry, history, solveStatus, jobid, nCalls,
                   locals, remote, lastOp>>

\* self.jobclient.delete_job(self.jobid); return solution
\* the local solution is unbound unless the PROCESSED branch ran
solveDelete(fails) ==
    /\ pc = "closed"
    /\ deleted' = Append(deleted, jobid)
    /\ pc' = "idle"
    /\ lastOp' = IF fails THEN Raised("solve", status, "delete_job failed")
                 ELSE IF solution = None
                 THEN Raised("solve", status,
                             "local variable 'solution' referenced before assignment")
                 ELSE Returned("solve", status, solution)
    /\ ResetLocals
    /\ UNCHANGED <<config, streamsRegistry, history, solveStatus, jobid, nCalls,
                   openStreams, jobs>>

---------------------------------------------------------------------------
(* Optimizer.__init__ and the specification *)

Credentials == {[url |-> "https://service", key |-> "k"]}

Init ==
    /\ name \in ProblemNames
    /\ credentials \in Credentials
    /\ model \in {None} \cup {Some(ms) : ms \in ModelSources}
    /\ resultDataModel \in {None} \cup {Some(s) : s \in Schemas}
    /\ \E refs \in RefLists :
          /\ ~AttachResult(<<>>, Some(refs)).raised
          /\ attachments = AttachResult(<<>>, Some(refs)).map
    /\ streamsRegistry = <<>>
    /\ history = <<>>
    /\ solveStatus = "UNKNOWN"
    /\ jobid = 0
    /\ pc = "idle"
    /\ nCalls = 0
    /\ inputs = <<>>
    /\ response = NoResponse
    /\ status = "NONE"
    /\ solution = None
    /\ solutionId = ""
    /\ openStreams = {}
    /\ jobs = <<>>
    /\ deleted = <<>>
    /\ lastOp = Returned("__init__", "NONE", None)

Next ==
    \/ \E arg \in {None} \cup {Some(l) : l \in RefLists} : attachData(arg)
    \/ \E n \in ModelNames, a \in ModelArgs : setOPLModel(n, a[1], a[2])
    \/ \E s \in Schemas : setResultDataModel(s)
    \/ solveNoModel
    \/ \E d \in InputDatas, sid \in SolutionIds, jsonFails \in BOOLEAN :
          solveAssemble(d, sid, jsonFails)
    \/ \E fails \in BOOLEAN, rs \in ReportedStatuses : solveExecute(fails, rs)
    \/ \E fails \in BOOLEAN, st \in ExecutionStatuses : solveGetStatus(fails, st)
    \/ \E fails \in BOOLEAN : solveProcessed(fails)
    \/ solveFailed
    \/ solveOther
    \/ solveClose
    \/ \E fails \in BOOLEAN : solveDelete(fails)

Spec == Init /\ [][Next]_vars

\* solve() called again and again on each constructed orchestrator, with the
\* solution identifiers of an iterative algorithm
NextSolves ==
    \/ solveNoModel
    \/ \E d \in InputDatas, sid \in SolutionTags, jsonFails \in BOOLEAN :
          solveAssemble(d, sid, jsonFails)
    \/ \E fails \in BOOLEAN, rs \in ReportedStatuses : solveExecute(fails, rs)
    \/ \E fails \in BOOLEAN, st \in ExecutionStatuses : solveGetStatus(fails, st)
    \/ \E fails \in BOOLEAN : solveProcessed(fails)
    \/ solveFailed
    \/ solveOther
    \/ solveClose
    \/ \E fails \in BOOLEAN : solveDelete(fails)

SpecSolves == Init /\ [][NextSolves]_vars

\* ModelSource on its own: objects are built from every pair of fragment lists
\* and asked isEmpty() and toStream()
InitMS ==
    /\ Init
    /\ model = None
    /\ resultDataModel = None
    /\ attachments = <<>>

NextMS ==
    \/ \E n \in ModelNames, d \in OptFragmentRefs, t \in OptFragmentTexts :
          newModelSource(n, d, t)
    \/ callIsEmpty
    \/ callToStream

SpecMS == InitMS /\ [][NextMS]_vars

---------------------------------------------------------------------------
(* Properties *)

Count(seq, x) == Cardinality({i \in 1..Len(seq) : seq[i] = x})

\* a step that calls attachData / setOPLModel / setResultDataModel: every call
\* made between two solves records its own name in lastOp
CallOf(op) == pc = "idle" /\ pc' = "idle" /\ lastOp'.op = op

\* a step that enters solve()
SolveEntered == pc = "idle" /\ (pc' # "idle" \/ lastOp'.op = "solve")

\* C1: when a solve() call has ended, on whatever path, every stream in the
\* transient registry has been closed.
C1_StreamsClosedAtExit ==
    pc = "idle" => Range(streamsRegistry) \cap openStreams = {}

\* C2: when no solve() call is in flight the transient registry is empty, so no
\* entry of one solve() is left in it when the next one begins.
C2_RegistryEmptyBetweenSolves ==
    pc = "idle" => streamsRegistry = <<>>

\* C3: when a solve() call has ended, deletion has been requested exactly once
\* for every job identifier the service returned, and for nothing else.
C3_DeletionOncePerJob ==
    pc = "idle" =>
        /\ \A j \in Range(jobs) : Count(deleted, j) = 1
        /\ Range(deleted) \subseteq Range(jobs)

\* C4: history is append-only and tracks the successful solves: the PROCESSED
\* branch that maps its result appends exactly that result at the end, no other
\* step of any call changes history, and the entries stand in call order.
HistoryInCallOrder ==
    \A i, j \in 1..Len(history) : i < j => history[i].data < history[j].data

C5_FailedReturnsDefined ==
    (/\ pc = "idle"
     /\ lastOp.op = "solve"
     /\ lastOp.status = "FAILED"
     /\ lastOp.error # "delete_job failed")
    => lastOp.result = "returned"

\* C6: setOPLModel with a model already attached, and setResultDataModel with a
\* schema already set, raise the configuration error and leave model and schema
\* as they were, whatever happened before.
C6_SetOnce ==
    [][ /\ (CallOf("setOPLModel") /\ model # None) =>
              /\ lastOp' = Raised("setOPLModel", "NONE", "model has already been set")
              /\ model' = model /\ resultDataModel' = resultDataModel
        /\ (CallOf("setResultDataModel") /\ resultDataModel # None) =>
              /\ lastOp' = Raised("setResultDataModel", "NONE",
                                  "results data model has already been defined")
              /\ model' = model /\ resultDataModel' = resultDataModel ]_vars

C6_Witness ==
    /\ lastOp = Raised("setOPLModel", "NONE", "model has already been set")
    /\ resultDataModel # None
    /\ nCalls > 0

HasDuplicateStem(l) ==
    \E i, j \in 1..Len(l) : i # j /\ fileName(l[i]) = fileName(l[j])

\* C7: attachData with a list in which two references have the same stem raises
\* the duplicate-attachment error and leaves the attachment map as it was
\* before the call.
C7_DuplicateLeavesMapUnchanged ==
    [][ CallOf("attachData") =>
          \A l \in RefLists :
            (HasDuplicateStem(l) /\ attachData(Some(l))) =>
                /\ lastOp' = Raised("attachData", "NONE", "already attached")
                /\ attachments' = attachments ]_vars

\* the dict a reference list without repeated stems stands for
MapOf(l) ==
    [s \in {fileName(l[i]) : i \in 1..Len(l)} |->
        CHOOSE r \in Range(l) : fileName(r) = s]

\* C8: attachData replaces: after a successful attachData(refs) the map holds
\* exactly the stems of refs, each with its reference, whatever it held before
\* (so a second call with the same list leaves the same map).
C8_AttachReplaces ==
    [][ (CallOf("attachData") /\ lastOp'.result = "returned") =>
          /\ \A l \in RefLists : attachData(Some(l)) => attachments' = MapOf(l)
          /\ attachData(None) => attachments' = <<>> ]_vars

C8_Witness ==
    /\ lastOp = Returned("attachData", "NONE", None)
    /\ DOMAIN attachments = {"y"}
    /\ nCalls > 0

\* C9: solve() with no model attached raises the "no model" error and has no
\* other effect: no stream, no job, no deletion, and history, solve status and
\* job identifier stay as they were.
C9_NoModelNoEffect ==
    [][ (SolveEntered /\ model = None) =>
            /\ lastOp' = Raised("solve", "NONE",
                                "A model attachment must be provided to the optimizer")
            /\ UNCHANGED <<config, streamsRegistry, history, solveStatus, jobid,
                           pc, nCalls, locals, openStreams, remote>> ]_vars

C9_Witness ==
    /\ lastOp = Raised("solve", "NONE",
                       "A model attachment must be provided to the optimizer")
    /\ model = None
    /\ attachments # <<>>
    /\ openStreams = {} /\ jobs = <<>>

\* C10: the solve status is UNKNOWN until the first solve, and after a solve
\* that ended FAILED or with another status it reflects that solve, not the
\* value an earlier solve reported.
C10_StatusReflectsLatestSolve ==
    /\ nCalls = 0 => getSolveStatus = "UNKNOWN"
    /\ (/\ pc = "idle"
        /\ lastOp.op = "solve"
        /\ lastOp.status \in ExecutionStatuses \ {"PROCESSED"})
       => getSolveStatus = "UNKNOWN"

\* the fragments' contents one after the other, built from the last one back
RECURSIVE InOrder(_)
InOrder(l) ==
    IF l = <<>> THEN "" ELSE InOrder(SubSeq(l, 1, Len(l) - 1)) \o l[Len(l)]

C12_EmptyListRejected ==
    /\ [][ lastOp'.op = "ModelSource" =>
            \A n \in ModelNames, d \in OptFragmentRefs, t \in OptFragmentTexts :
              newModelSource(n, d, t) =>
                IF d = Some(<<>>) \/ t = Some(<<>>)
                THEN /\ lastOp' = Raised("ModelSource", "NONE", "argument cannot be empty")
                     /\ model' = model
                ELSE /\ lastOp'.result = "returned"
                     /\ model' = Some([name |-> n, dotMods |-> d, modelText |-> t]) ]_vars
    /\ [](model # None =>
            LET neither == Get(model).dotMods = None /\ Get(model).modelText = None IN
            /\ lastOp.op = "isEmpty" => lastOp = Returned("isEmpty", "NONE", neither)
            /\ lastOp.op = "toStream" =>
                  (lastOp = Raised("toStream", "NONE", "model source is empty")
                     <=> neither)
            /\ lastOp.op = "toStream" => lastOp.result = (IF neither THEN "raised"
                                                          ELSE "returned"))

C12_Witness ==
    /\ model = Some([name |-> "OPL.mod", dotMods |-> None, modelText |-> None])
    /\ lastOp = Raised("toStream", "NONE", "model source is empty")

C14_InputOrder ==
    /\ [][ (pc = "idle" /\ pc' = "assembled") =>
            \A d \in InputDatas, sid \in SolutionTags :
              solveAssemble(d, sid, FALSE) =>
                LET keys == DictKeys(attachments)
                    k == Cardinality(DOMAIN attachments)
                    n == Len(inputs')
                IN  /\ Len(keys) = k
                    /\ {keys[i] : i \in 1..k} = DOMAIN attachments
                    /\ n = 1 + k + (IF d = None THEN 0 ELSE 1)
                    /\ inputs'[1].name = <<Get(model).name>>
                    /\ inputs'[1].file.kind = "model"
                    /\ \A i \in 1..k :
                          /\ inputs'[1 + i].name = <<keys[i]>>
                          /\ inputs'[1 + i].file.kind = "attachment"
                          /\ inputs'[1 + i].file.name = keys[i]
                    /\ d # None => inputs'[n].file.kind = "inStream"
                    /\ Cardinality({i \in 1..n : inputs'[i].file.kind = "model"}) = 1
                    /\ Cardinality({i \in 1..n : inputs'[i].file.kind = "inStream"}) <= 1
                    /\ \A i, j \in 1..n : i # j => inputs'[i] # inputs'[j] ]_vars
    /\ [][ (pc = "assembled" /\ pc' = "submitted") => inputs' = inputs ]_vars

C14_Witness ==
    /\ pc = "submitted"
    /\ Len(inputs) = 4
    /\ inputs[1].file.kind = "model"
    /\ inputs[2].name = <<"y">>
    /\ inputs[3].name = <<"x">>
    /\ inputs[4].file.kind = "inStream"

\* C15: a solve() call moves IDLE -> INPUTS_ASSEMBLED -> SUBMITTED ->
\* {PROCESSED | FAILED | OTHER} -> CLEANED_UP -> IDLE and along no other edge;
\* a call leaves this path early only where a remote call did not answer, so
\* every call the service answered runs its cleanup before the orchestrator is
\* idle again.
C15_PhasesInOrder ==
    [][ pc' # pc =>
          \/ pc = "idle" /\ pc' = "assembled"
          \/ pc = "assembled" /\ pc' = "submitted"
          \/ pc = "submitted" /\ pc' = "classified"
          \/ pc = "classified" /\ pc' = "mapped"
          \/ pc = "mapped" /\ pc' = "closed"
          \/ pc = "closed" /\ pc' = "idle"
          \/ /\ pc = "assembled" /\ pc' = "idle"
             /\ lastOp' = Raised("solve", "NONE", "execute failed")
          \/ /\ pc = "submitted" /\ pc' = "idle"
             /\ lastOp' = Raised("solve", "NONE", "get_execution_status failed") ]_vars

\* C16: solve() with an attached model whose isEmpty() is true does not fail on
\* the model: it adds no model input and no model stream to the registry and
\* goes on to the attachments, the variable input and the submission.
C16_EmptyModelSkipped ==
    [][ (/\ pc = "idle" /\ nCalls' = nCalls + 1
         /\ model # None /\ isEmpty(Get(model))) =>
          /\ lastOp'.error # "model source is empty"
          /\ lastOp'.error = "toJSON failed" \/ pc' = "assembled"
          /\ \A i \in 1..Len(inputs') : inputs'[i].file.kind # "model"
          /\ \A i \in 1..Len(streamsRegistry') :
                i > Len(streamsRegistry) => streamsRegistry'[i].kind # "model" ]_vars

C18_SolveKeepsConfiguration ==
    /\ [][ (SolveEntered \/ pc # "idle") =>
            /\ name' = name
            /\ model' = model
            /\ resultDataModel' = resultDataModel
            /\ credentials' = credentials
            /\ attachments' = attachments ]_vars
    /\ [](pc # "idle" =>
            /\ model # None
            /\ inputs[1].name = <<Get(model).name>>
            /\ {inputs[i].name : i \in {j \in 1..Len(inputs) :
                                          inputs[j].file.kind = "attachment"}}
                 = {<<k>> : k \in DOMAIN attachments})

C18_Witness ==
    /\ pc = "idle"
    /\ nCalls = 2
    /\ lastOp.op = "solve" /\ lastOp.status = "FAILED"
    /\ DOMAIN attachments = {"x", "y"}
    /\ resultDataModel = Some("S1")
    /\ history # <<>>

\* C19: within a solve() call the remote steps run in one order: the job is
\* submitted once and its identifier recorded, the execution status is queried
\* for that identifier, every registered stream is closed, and only then is
\* deletion requested, for the identifier this call's submission returned; no
\* deletion precedes the status query of its call or names another identifier.
C19_RemoteStepsOrdered ==
    /\ [](Len(jobs) <= nCalls)
    /\ [][ jobs' # jobs =>
            /\ pc = "assembled" /\ pc' = "submitted"
            /\ Len(jobs') = Len(jobs) + 1
            /\ jobid' = jobs'[Len(jobs')]
            /\ response'.jobid = jobid'
            /\ jobid' \notin Range(jobs)
            /\ status = "NONE" /\ deleted' = deleted ]_vars
    /\ [][ (status' # status /\ status' # "NONE") =>
            /\ pc = "submitted" /\ pc' = "classified"
            /\ jobid = response.jobid /\ jobid = jobs[Len(jobs)]
            /\ jobid \notin Range(deleted)
            /\ UNCHANGED <<jobid, jobs, deleted>> ]_vars
    /\ [][ openStreams' # openStreams /\ openStreams' \subseteq openStreams =>
            /\ pc = "mapped" /\ pc' = "closed"
            /\ status # "NONE"
            /\ UNCHANGED <<jobid, jobs, deleted>> ]_vars
    /\ [][ deleted' # deleted =>
            /\ pc = "closed"
            /\ status # "NONE"
            /\ Range(streamsRegistry) \cap openStreams = {}
            /\ deleted' = Append(deleted, jobid)
            /\ jobid = response.jobid /\ jobid = jobs[Len(jobs)]
            /\ jobid \notin Range(deleted)
            /\ UNCHANGED <<jobid, jobs>> ]_vars

C19_Witness ==
    /\ pc = "idle"
    /\ jobs = <<1, 2>>
    /\ deleted = <<1, 2>>
    /\ Len(streamsRegistry) > 4
    /\ lastOp.op = "solve" /\ lastOp.status = "PROCESSED"

====
